---- MODULE Spec2Model ----
(***************************************************************************)
(* A model of the mzpeaks coordinate layer: CoordinateRange (parsing,      *)
(* containment, overlap), the CentroidPeak / MZPoint conversions, the      *)
(* DeconvolutedPeak derived m/z, and IndexedCoordinate on borrowed views.  *)
(*                                                                         *)
(* f64 values are modelled by integers (every value the model uses is      *)
(* exactly representable), f64::INFINITY by a value above every finite     *)
(* coordinate of the model, Option<T> by a sequence of length 0 or 1, and  *)
(* &str by a sequence of one-character strings.                            *)
(***************************************************************************)
EXTENDS Integers, Sequences, FiniteSets

VARIABLES
    input,      \* the &str handed to CoordinateRange::from_str
    outcome,    \* what from_str did with it
    range,      \* a CoordinateRange<C> value
    call,       \* the last containment / overlap call on range and its result
    cpeak,      \* a CentroidPeak
    point,      \* Option<MZPoint>: cpeak converted down
    back,       \* Option<CentroidPeak>: point converted up again
    dpeak,      \* a DeconvolutedPeak
    massWritten,\* the last value stored in dpeak's neutral mass
    dret,       \* the last operation on dpeak and what it returned
    entity,     \* an indexed entity (CentroidPeak or MZPoint)
    iret        \* the last index operation on entity and what it returned

vars == <<input, outcome, range, call, cpeak, point, back,
          dpeak, massWritten, dret, entity, iret>>

parseVars == <<input, outcome>>
rangeVars == <<range, call>>
convVars == <<cpeak, point, back>>
deconvVars == <<dpeak, massWritten, dret>>
indexVars == <<entity, iret>>

\* each component's operations leave the other components alone
ParseFrame == UNCHANGED <<rangeVars, convVars, deconvVars, indexVars>>
RangeFrame == UNCHANGED <<parseVars, convVars, deconvVars, indexVars>>
ConvFrame == UNCHANGED <<parseVars, rangeVars, deconvVars, indexVars>>
DeconvFrame == UNCHANGED <<parseVars, rangeVars, convVars, indexVars>>
IndexFrame == UNCHANGED <<parseVars, rangeVars, convVars, deconvVars>>

----------------------------------------------------------------------------
(* Bounds of the model *)

MaxLen == 5        \* longest input string
MaxCoord == 3      \* largest finite coordinate of a range, bound or point
MaxNeg == 1        \* coordinates go down to -MaxNeg
MaxMz == 3         \* largest m/z of a CentroidPeak in the model
MaxIntensity == 2  \* largest intensity
MaxIndex == 3      \* largest index
MaxMass == 5       \* largest neutral mass (micro-units)
MaxCharge == 2     \* charges range over -MaxCharge..MaxCharge

----------------------------------------------------------------------------
(* Option<T> *)

None == << >>
Some(v) == <<v>>
IsSome(o) == Len(o) = 1
Unwrap(o) == o[1]
UnwrapOr(o, d) == IF IsSome(o) THEN o[1] ELSE d

----------------------------------------------------------------------------
(* CoordinateRange::from_str *)

Digits == {"0", "1", "2"}
Alphabet == Digits \cup {"a", " ", ":", "-"}
Strings == UNION {[1..n -> Alphabet] : n \in 0..MaxLen}

DigitValue(c) == CASE c = "0" -> 0 [] c = "1" -> 1 [] c = "2" -> 2

RECURSIVE DecimalValue(_)
DecimalValue(ds) ==
    IF ds = << >> THEN 0
    ELSE 10 * DecimalValue(SubSeq(ds, 1, Len(ds) - 1)) + DigitValue(ds[Len(ds)])

AllDigits(t) == \A k \in 1..Len(t) : t[k] \in Digits

\* str::contains(char)
StrContains(s, d) == \E k \in 1..Len(s) : s[k] = d

FirstIndex(s, d) == CHOOSE k \in 1..Len(s) : s[k] = d /\ \A j \in 1..(k - 1) : s[j] # d

\* str::split(char), collected: every occurrence of d separates two pieces
RECURSIVE StrSplit(_, _)
StrSplit(s, d) ==
    IF ~StrContains(s, d) THEN <<s>>
    ELSE LET k == FirstIndex(s, d)
         IN  <<SubSeq(s, 1, k - 1)>> \o StrSplit(SubSeq(s, k + 1, Len(s)), d)

\* <f64 as FromStr>::from_str on the model's alphabet: an optional sign
\* followed by at least one digit; anything else (the empty string, a lone
\* sign, a letter, a blank, a colon, an inner hyphen) is a ParseFloatError.
ParseF64(t) ==
    IF t # << >> /\ AllDigits(t) THEN [ok |-> TRUE, val |-> DecimalValue(t)]
    ELSE IF Len(t) >= 2 /\ t[1] = "-" /\ AllDigits(Tail(t))
         THEN [ok |-> TRUE, val |-> 0 - DecimalValue(Tail(t))]
         ELSE [ok |-> FALSE]

Delimiter_without_hyphen(s) ==
    IF StrContains(s, " ") THEN " "
    ELSE IF StrContains(s, ":") THEN ":"
    ELSE " "

\* the if / else-if chain choosing the delimiter (the last branch is ' ' again)
Delimiter(s) ==
    IF StrContains(s, " ") THEN " "
    ELSE IF StrContains(s, ":") THEN ":"
    ELSE IF StrContains(s, "-") THEN "-"
    ELSE " "

\* one side of the range: empty is None, otherwise the token must parse
ParseToken(t) ==
    IF t = << >> THEN [ok |-> TRUE, val |-> None]
    ELSE LET p == ParseF64(t)
         IN  IF p.ok THEN [ok |-> TRUE, val |-> Some(p.val)] ELSE [ok |-> FALSE]

OkRange(s, e) == [kind |-> "Ok", start |-> s, end |-> e]
Failure(k) == [kind |-> k, start |-> None, end |-> None]

\* from_str: tokens.next().unwrap() twice; the second unwrap panics when the
\* split produced a single piece, but only after the start token was parsed
from_str(s) ==
    LET tokens == StrSplit(s, Delimiter(s))
        start_t == ParseToken(tokens[1])
    IN  IF ~start_t.ok THEN Failure("MalformedStart")
        ELSE IF Len(tokens) < 2 THEN Failure("Panic")
        ELSE LET end_t == ParseToken(tokens[2])
             IN  IF ~end_t.ok THEN Failure("MalformedEnd")
                 ELSE OkRange(start_t.val, end_t.val)

NotCalled == [kind |-> "NotCalled", start |-> None, end |-> None]

ParseIdle ==
    /\ input = << >>
    /\ outcome = NotCalled

FromStr ==
    /\ outcome = NotCalled
    /\ outcome' = from_str(input)
    /\ UNCHANGED input
    /\ ParseFrame

----------------------------------------------------------------------------
(* CoordinateRange: containment and overlap *)

Coords == (0 - MaxNeg)..MaxCoord
\* f64::INFINITY: above every finite value of the model
INFINITY == MaxCoord + 1

Opt(S) == {None} \cup {Some(v) : v \in S}

CoordinateRange_new(start, end) == [start |-> start, end |-> end]
Ranges == {CoordinateRange_new(s, e) : s \in Opt(Coords), e \in Opt(Coords)}

\* std::ops::Bound<&f64>
Included(v) == [kind |-> "Included", val |-> v]
Excluded(v) == [kind |-> "Excluded", val |-> v]
Unbounded == [kind |-> "Unbounded", val |-> 0]
Bounds == {Included(v) : v \in Coords} \cup {Excluded(v) : v \in Coords} \cup {Unbounded}
\* any T: RangeBounds<f64>, by its two bounds
Intervals == [start : Bounds, end : Bounds]

start_bound(r) == IF IsSome(r.start) THEN Included(Unwrap(r.start)) ELSE Unbounded
end_bound(r) == IF IsSome(r.end) THEN Included(Unwrap(r.end)) ELSE Unbounded
AsInterval(r) == [start |-> start_bound(r), end |-> end_bound(r)]

\* the provided method RangeBounds::contains that contains / contains_raw call
RangeBounds_contains(iv, x) ==
    /\ CASE iv.start.kind = "Included" -> iv.start.val <= x
         [] iv.start.kind = "Excluded" -> iv.start.val < x
         [] iv.start.kind = "Unbounded" -> TRUE
    /\ CASE iv.end.kind = "Included" -> x <= iv.end.val
         [] iv.end.kind = "Excluded" -> x < iv.end.val
         [] iv.end.kind = "Unbounded" -> TRUE

MZPoint_new(mz, intensity) == [mz |-> mz, intensity |-> intensity]
MZPoint_coordinate(p) == p.mz

contains_raw(r, x) == RangeBounds_contains(AsInterval(r), x)
contains(r, p) ==
    LET x == MZPoint_coordinate(p)
    IN  RangeBounds_contains(AsInterval(r), x)

overlaps_strict(r, interval) ==
    LET interval_start == IF interval.start.kind = "Unbounded" THEN 0 ELSE interval.start.val
        interval_end == IF interval.end.kind = "Unbounded" THEN INFINITY ELSE interval.end.val
    IN  /\ UnwrapOr(r.end, INFINITY) > interval_start
        /\ interval_end > UnwrapOr(r.start, 0)

overlaps_open_start(r, interval) ==
    LET interval_start == IF interval.start.kind = "Unbounded" THEN 0 - INFINITY
                          ELSE interval.start.val
        interval_end == IF interval.end.kind = "Unbounded" THEN INFINITY ELSE interval.end.val
    IN  /\ UnwrapOr(r.end, INFINITY) >= interval_start
        /\ interval_end >= UnwrapOr(r.start, 0)

overlaps(r, interval) ==
    LET interval_start == CASE interval.start.kind = "Included" -> interval.start.val
                            [] interval.start.kind = "Excluded" -> interval.start.val
                            [] interval.start.kind = "Unbounded" -> 0
        interval_end == CASE interval.end.kind = "Included" -> interval.end.val
                          [] interval.end.kind = "Excluded" -> interval.end.val
                          [] interval.end.kind = "Unbounded" -> INFINITY
    IN  /\ UnwrapOr(r.end, INFINITY) >= interval_start
        /\ interval_end >= UnwrapOr(r.start, 0)

\* no call made yet; each behaviour makes one call on its range
NoCall == [op |-> "none", arg |-> 0, value |-> FALSE, converse |-> FALSE]

RangeIdle ==
    /\ range = CoordinateRange_new(None, None)
    /\ call = NoCall

Contains ==
    \E x \in Coords, i \in 0..MaxIntensity :
        /\ call = NoCall
        /\ call' = [op |-> "contains", arg |-> x,
                    value |-> contains(range, MZPoint_new(x, i)), converse |-> FALSE]
        /\ UNCHANGED range
        /\ RangeFrame

ContainsRaw ==
    \E x \in Coords :
        /\ call = NoCall
        /\ call' = [op |-> "contains_raw", arg |-> x,
                    value |-> contains_raw(range, x), converse |-> FALSE]
        /\ UNCHANGED range
        /\ RangeFrame

Overlaps ==
    \E iv \in Intervals :
        /\ call = NoCall
        /\ call' = [op |-> "overlaps", arg |-> iv,
                    value |-> overlaps(range, iv), converse |-> FALSE]
        /\ UNCHANGED range
        /\ RangeFrame

\* a.overlaps(&b) and b.overlaps(&a) for two CoordinateRange values
OverlapsRange ==
    \E b \in Ranges :
        /\ call = NoCall
        /\ call' = [op |-> "overlaps_range", arg |-> b,
                    value |-> overlaps(range, AsInterval(b)),
                    converse |-> overlaps(b, AsInterval(range))]
        /\ UNCHANGED range
        /\ RangeFrame

----------------------------------------------------------------------------
(* CentroidPeak <-> MZPoint *)

CentroidPeak_new(mz, intensity, index) ==
    [mz |-> mz, intensity |-> intensity, index |-> index]
CentroidPeaks ==
    {CentroidPeak_new(m, i, n) : m \in 0..MaxMz, i \in 0..MaxIntensity, n \in 0..MaxIndex}

\* generated for CentroidPeak by implement_centroidlike_inner!
CentroidPeak_coordinate(p) == p.mz
CentroidPeak_intensity(p) == p.intensity
CentroidPeak_get_index(p) == p.index
CentroidPeak_set_index(p, index) == [p EXCEPT !.index = index]

\* impl IndexedCoordinate<MZ> for MZPoint
MZPoint_get_index(p) == 0
MZPoint_set_index(p, index) == p

\* impl From<CentroidPeak> for MZPoint
MZPoint_from(peak) ==
    LET inst == [mz |-> CentroidPeak_coordinate(peak),
                 intensity |-> CentroidPeak_intensity(peak)]
    IN  MZPoint_set_index(inst, peak.index)

CentroidPeak_from_defaulted(peak) ==
    [mz |-> peak.mz, intensity |-> 0, index |-> 0]

\* impl From<MZPoint> for CentroidPeak
CentroidPeak_from(peak) ==
    [mz |-> peak.mz, intensity |-> peak.intensity, index |-> 0]

ConvIdle ==
    /\ cpeak = CentroidPeak_new(0, 0, 0)
    /\ point = None
    /\ back = None

\* let y: MZPoint = x.clone().into();
IntoMZPoint ==
    /\ point = None
    /\ point' = Some(MZPoint_from(cpeak))
    /\ UNCHANGED <<cpeak, back>>
    /\ ConvFrame

\* let z: CentroidPeak = y.clone().into();
IntoCentroidPeak ==
    /\ IsSome(point)
    /\ back = None
    /\ back' = Some(CentroidPeak_from(Unwrap(point)))
    /\ UNCHANGED <<cpeak, point>>
    /\ ConvFrame

----------------------------------------------------------------------------
(* DeconvolutedPeak: stored neutral mass, derived m/z *)

DeconvolutedPeak_new(neutral_mass, intensity, charge, index) ==
    [neutral_mass |-> neutral_mass, intensity |-> intensity,
     charge |-> charge, index |-> index]

\* 1.007276, in the micro-units the model counts masses in
charge_carrier == 1007276

\* an f64 quotient, kept exact as numerator and denominator
Quot(n, d) == [num |-> n, den |-> d]
Sign(n) == IF n > 0 THEN 1 ELSE IF n < 0 THEN 0 - 1 ELSE 0
\* x / 0.0 is +inf, -inf or NaN by the sign of x; finite quotients compare
\* by cross-multiplication
SameQuot(a, b) ==
    IF a.den = 0 \/ b.den = 0
    THEN a.den = 0 /\ b.den = 0 /\ Sign(a.num) = Sign(b.num)
    ELSE a.num * b.den = b.num * a.den

DeconvolutedPeak_mz_unscaled(p) ==
    Quot(p.neutral_mass + charge_carrier, p.charge)

\* DeconvolutedPeak::mz
DeconvolutedPeak_mz(p) ==
    LET charge == p.charge
    IN  Quot(p.neutral_mass + charge_carrier * charge, charge)

\* impl CoordinateLike<MZ> for DeconvolutedPeak, MZ::coordinate
DeconvolutedPeak_MZ_coordinate(p) == DeconvolutedPeak_mz(p)
MZ_coordinate(p) == DeconvolutedPeak_MZ_coordinate(p)

\* generated for DeconvolutedPeak by implement_deconvoluted_centroidlike_inner!
DeconvolutedPeak_Mass_coordinate(p) == p.neutral_mass
DeconvolutedPeak_Mass_coordinate_mut(p, v) == [p EXCEPT !.neutral_mass = v]

\* Mass::coordinate, MassLocated::neutral_mass, CoordinateSystem::coordinate_mut
Mass_coordinate(p) == DeconvolutedPeak_Mass_coordinate(p)
neutral_mass(p) == DeconvolutedPeak_Mass_coordinate(p)
CoordinateSystem_coordinate_mut(p, v) == DeconvolutedPeak_Mass_coordinate_mut(p, v)

NoRead == [op |-> "none", value |-> Quot(0, 1)]

DeconvIdle ==
    /\ dpeak = DeconvolutedPeak_new(0, 0, 1, 0)
    /\ massWritten = 0
    /\ dret = NoRead

\* *Mass().coordinate_mut(&mut peak) = v;
WriteMass ==
    \E v \in 0..MaxMass :
        /\ dpeak' = CoordinateSystem_coordinate_mut(dpeak, v)
        /\ massWritten' = v
        /\ dret' = NoRead
        /\ DeconvFrame

\* peak.charge = c;
WriteCharge ==
    \E c \in (0 - MaxCharge)..MaxCharge :
        /\ dpeak' = [dpeak EXCEPT !.charge = c]
        /\ dret' = NoRead
        /\ UNCHANGED massWritten
        /\ DeconvFrame

ReadMass ==
    /\ \/ dret' = [op |-> "Mass::coordinate", value |-> Quot(Mass_coordinate(dpeak), 1)]
       \/ dret' = [op |-> "neutral_mass", value |-> Quot(neutral_mass(dpeak), 1)]
    /\ UNCHANGED <<dpeak, massWritten>>
    /\ DeconvFrame

ReadMz ==
    /\ \/ dret' = [op |-> "mz", value |-> DeconvolutedPeak_mz(dpeak)]
       \/ dret' = [op |-> "MZ::coordinate", value |-> MZ_coordinate(dpeak)]
    /\ UNCHANGED <<dpeak, massWritten>>
    /\ DeconvFrame

----------------------------------------------------------------------------
(* IndexedCoordinate on an owned entity and on a shared borrow of it *)

Entities ==
    {[type |-> "CentroidPeak", val |-> p] : p \in CentroidPeaks}
    \cup {[type |-> "MZPoint", val |-> MZPoint_new(m, i)] :
             m \in 0..MaxMz, i \in 0..MaxIntensity}

\* T::get_index / T::set_index, by the type of the entity
T_get_index(e) ==
    IF e.type = "CentroidPeak" THEN CentroidPeak_get_index(e.val)
    ELSE MZPoint_get_index(e.val)
T_set_index(e, index) ==
    IF e.type = "CentroidPeak"
    THEN [e EXCEPT !.val = CentroidPeak_set_index(e.val, index)]
    ELSE [e EXCEPT !.val = MZPoint_set_index(e.val, index)]

Ref_set_index_forwarded(e, index) == T_set_index(e, index)

\* impl IndexedCoordinate<C> for &T
Ref_get_index(e) == T_get_index(e)
Ref_set_index(e, index) == e

NoIndexOp == [op |-> "none", arg |-> 0, value |-> 0]

IndexIdle ==
    /\ entity = [type |-> "MZPoint", val |-> MZPoint_new(0, 0)]
    /\ iret = NoIndexOp

SetIndexOwned ==
    \E n \in 0..MaxIndex :
        /\ entity' = T_set_index(entity, n)
        /\ iret' = [op |-> "set_index", arg |-> n, value |-> 0]
        /\ IndexFrame

GetIndexOwned ==
    /\ iret' = [op |-> "get_index", arg |-> 0, value |-> T_get_index(entity)]
    /\ UNCHANGED entity
    /\ IndexFrame

SetIndexRef ==
    \E n \in 0..MaxIndex :
        /\ entity' = Ref_set_index(entity, n)
        /\ iret' = [op |-> "ref.set_index", arg |-> n, value |-> 0]
        /\ IndexFrame

GetIndexRef ==
    /\ iret' = [op |-> "ref.get_index", arg |-> 0, value |-> Ref_get_index(entity)]
    /\ UNCHANGED entity
    /\ IndexFrame

----------------------------------------------------------------------------
(* Specifications, one per component; the other components stay idle *)

InitParse ==
    /\ input \in Strings
    /\ outcome = NotCalled
    /\ RangeIdle /\ ConvIdle /\ DeconvIdle /\ IndexIdle
NextParse == FromStr
SpecParse == InitParse /\ [][NextParse]_vars

InitRange ==
    /\ range \in Ranges
    /\ call = NoCall
    /\ ParseIdle /\ ConvIdle /\ DeconvIdle /\ IndexIdle
NextRange ==
    \/ Contains
    \/ ContainsRaw
    \/ Overlaps
    \/ OverlapsRange
SpecRange == InitRange /\ [][NextRange]_vars

InitConv ==
    /\ cpeak \in CentroidPeaks
    /\ point = None
    /\ back = None
    /\ ParseIdle /\ RangeIdle /\ DeconvIdle /\ IndexIdle
NextConv ==
    \/ IntoMZPoint
    \/ IntoCentroidPeak
SpecConv == InitConv /\ [][NextConv]_vars

InitDeconv ==
    /\ DeconvIdle
    /\ ParseIdle /\ RangeIdle /\ ConvIdle /\ IndexIdle
NextDeconv ==
    \/ WriteMass
    \/ WriteCharge
    \/ ReadMass
    \/ ReadMz
SpecDeconv == InitDeconv /\ [][NextDeconv]_vars

InitIndex ==
    /\ entity \in Entities
    /\ iret = NoIndexOp
    /\ ParseIdle /\ RangeIdle /\ ConvIdle /\ DeconvIdle
NextIndex ==
    \/ SetIndexOwned
    \/ GetIndexOwned
    \/ SetIndexRef
    \/ GetIndexRef
SpecIndex == InitIndex /\ [][NextIndex]_vars

----------------------------------------------------------------------------
(* Properties of CoordinateRange::from_str, under SpecParse *)

Called == outcome.kind # "NotCalled"
Delimiters == {" ", ":", "-"}
HasDelimiter(s) == \E k \in 1..Len(s) : s[k] \in Delimiters
Occurrences(s, d) == Cardinality({k \in 1..Len(s) : s[k] = d})

\* the two tokens when only the first occurrence of the delimiter splits:
\* the text before it and all the text after it; without any delimiter the
\* whole string is the start token and the end token is empty
StartToken(s) ==
    IF HasDelimiter(s) THEN SubSeq(s, 1, FirstIndex(s, Delimiter(s)) - 1) ELSE s
EndToken(s) ==
    IF HasDelimiter(s) THEN SubSeq(s, FirstIndex(s, Delimiter(s)) + 1, Len(s)) ELSE << >>
IsNumber(t) == ParseF64(t).ok
TokenValue(t) == IF t = << >> THEN None ELSE Some(ParseF64(t).val)

\* C1: an input without space, colon or hyphen that is a number parses to
\* Ok with start = that number and end = None; from_str does not abort.
C1_BareNumberIsStartOnly ==
    (Called /\ ~HasDelimiter(input) /\ IsNumber(input))
        => outcome = OkRange(Some(ParseF64(input).val), None)

\* C3: only the first occurrence of the highest-priority delimiter present
\* splits the input: the outcome is that of parsing the text before it and
\* all the text after it, and an input with a second occurrence of that
\* delimiter yields no range.
C3_FirstOccurrenceSplits ==
    (Called /\ HasDelimiter(input)) =>
        /\ outcome =
              IF StartToken(input) # << >> /\ ~IsNumber(StartToken(input))
              THEN Failure("MalformedStart")
              ELSE IF EndToken(input) # << >> /\ ~IsNumber(EndToken(input))
                   THEN Failure("MalformedEnd")
                   ELSE OkRange(TokenValue(StartToken(input)), TokenValue(EndToken(input)))
        /\ Occurrences(input, Delimiter(input)) >= 2 => outcome.kind # "Ok"

\* the inputs <start><delim><end>: one delimiter, each token empty or digits
SingleDelimiterForm(s) ==
    \E k \in 1..Len(s) :
        /\ s[k] \in Delimiters
        /\ AllDigits(SubSeq(s, 1, k - 1))
        /\ AllDigits(SubSeq(s, k + 1, Len(s)))
DelimiterAt(s) == CHOOSE k \in 1..Len(s) : s[k] \in Delimiters
DigitsOption(t) == IF t = << >> THEN None ELSE Some(DecimalValue(t))

\* C4: for <start><delim><end> with a single ' ', ':' or '-' and each token
\* empty or a plain unsigned number, from_str returns Ok with each side None
\* when its token is empty and Some(value) otherwise, whatever the delimiter.
C4_SingleDelimiterParses ==
    (Called /\ SingleDelimiterForm(input)) =>
        LET k == DelimiterAt(input)
        IN  outcome = OkRange(DigitsOption(SubSeq(input, 1, k - 1)),
                              DigitsOption(SubSeq(input, k + 1, Len(input))))

C4_Witness ==
    /\ input = <<"1", "0", "-", "2", "0">>
    /\ outcome = OkRange(Some(10), Some(20))

\* C6: a non-empty start token that is no number gives MalformedStart; with
\* the start token empty or a number, a non-empty end token that is no
\* number gives MalformedEnd; there is no third way to fail.
C6_FailureNamesTheSide ==
    Called =>
        /\ (StartToken(input) # << >> /\ ~IsNumber(StartToken(input)))
              => outcome = Failure("MalformedStart")
        /\ (/\ StartToken(input) = << >> \/ IsNumber(StartToken(input))
            /\ EndToken(input) # << >>
            /\ ~IsNumber(EndToken(input)))
              => outcome = Failure("MalformedEnd")
        /\ outcome.kind \in {"Ok", "MalformedStart", "MalformedEnd"}

----------------------------------------------------------------------------
(* Properties of containment and overlap, under SpecRange *)

StartOr0(r) == IF r.start = None THEN 0 ELSE r.start[1]
EndOrInf(r) == IF r.end = None THEN INFINITY ELSE r.end[1]
BoundOr(b, d) == IF b.kind = "Unbounded" THEN d ELSE b.val

\* C2: contains and contains_raw are true exactly when
\* start_or_0 <= x <= end_or_+inf; in particular a range without start
\* does not contain a negative x.
C2_ContainsFromZero ==
    call.op \in {"contains", "contains_raw"}
        => call.value = (StartOr0(range) <= call.arg /\ call.arg <= EndOrInf(range))

\* C5: r.overlaps(i) is true exactly when r.end_or_+inf >= i.start_or_0 and
\* i.end_or_+inf >= r.start_or_0, an excluded bound of i counting like an
\* included one.
C5_OverlapsByBoundaryValues ==
    call.op = "overlaps"
        => call.value = (/\ EndOrInf(range) >= BoundOr(call.arg.start, 0)
                         /\ BoundOr(call.arg.end, INFINITY) >= StartOr0(range))

\* [0,1] and [1,2] share only the boundary point and overlap
C5_Witness ==
    /\ call.op = "overlaps"
    /\ range = CoordinateRange_new(Some(0), Some(1))
    /\ call.arg = [start |-> Included(1), end |-> Included(2)]
    /\ call.value = TRUE

\* C10: a.overlaps(&b) = b.overlaps(&a) for any two CoordinateRange values.
C10_OverlapsSymmetric ==
    call.op = "overlaps_range" => call.value = call.converse

C10_Witness ==
    /\ call.op = "overlaps_range"
    /\ range = CoordinateRange_new(None, Some(0 - 1))
    /\ call.arg = CoordinateRange_new(None, None)
    /\ call.value = FALSE

----------------------------------------------------------------------------
(* Property of the conversions, under SpecConv *)

\* C7: CentroidPeak -> MZPoint -> CentroidPeak keeps mz and intensity and
\* gives index 0 whatever the index was; the MZPoint reports index 0.
C7_RoundTrip ==
    /\ IsSome(point) =>
          /\ Unwrap(point).mz = cpeak.mz
          /\ Unwrap(point).intensity = cpeak.intensity
          /\ MZPoint_get_index(Unwrap(point)) = 0
    /\ IsSome(back) =>
          /\ Unwrap(back).mz = cpeak.mz
          /\ Unwrap(back).intensity = cpeak.intensity
          /\ Unwrap(back).index = 0

C7_Witness ==
    /\ IsSome(back)
    /\ cpeak.index > 0
    /\ cpeak.intensity > 0
    /\ cpeak.mz > 0

----------------------------------------------------------------------------
(* Property of the DeconvolutedPeak, under SpecDeconv *)

\* C8: after any writes to neutral mass and charge, a Mass read returns the
\* last mass written and an m/z read equals
\* (neutral_mass + 1.007276 * charge) / charge of the current fields.
C8_DerivedMzIsCurrent ==
    /\ dret.op \in {"Mass::coordinate", "neutral_mass"}
          => dret.value = Quot(massWritten, 1)
    /\ dret.op \in {"mz", "MZ::coordinate"}
          => SameQuot(dret.value,
                      Quot(dpeak.neutral_mass + 1007276 * dpeak.charge, dpeak.charge))

\* both fields differ from the constructed peak's, so both were written
C8_Witness ==
    /\ dret.op = "MZ::coordinate"
    /\ dpeak.neutral_mass = 3
    /\ dpeak.charge = 2
    /\ massWritten = 3

----------------------------------------------------------------------------
(* Property of the borrowed view, under SpecIndex *)

CurrentIndex(e) == IF e.type = "CentroidPeak" THEN e.val.index ELSE 0

\* C9: set_index through &e leaves every field of e as it was, and get_index
\* through &e returns e's current index, in any interleaving with set_index
\* on the owned entity.
C9_BorrowedSetIndexIsNoOp ==
    [][/\ iret'.op = "ref.set_index" => entity' = entity
       /\ iret'.op = "ref.get_index" =>
             (entity' = entity /\ iret'.value = CurrentIndex(entity))]_vars

\* a borrowed set_index with another index than the one the owner stored
C9_Witness ==
    /\ iret.op = "ref.set_index"
    /\ entity.type = "CentroidPeak"
    /\ entity.val.index = 2
    /\ iret.arg = 1

====
